---- MODULE Spec2Model ----
(***************************************************************************)
(* A model of cpjs/cite.js, the command-line citation renderer of ZotHero. *)
(*                                                                         *)
(* Strings are sequences of pieces.  A piece is one character or a run of  *)
(* characters that the program never looks inside: "-" is always a piece   *)
(* of its own, so s.startsWith('-') is a test of the first piece, and the  *)
(* pieces "<div", "</div", ">" and "\n" are the only ones the regular      *)
(* expression of stripOuterDiv distinguishes.                              *)
(***************************************************************************)
EXTENDS Naturals, Sequences, FiniteSets

VARIABLES
    argv,        \* the argument list run() was called with
    pc,          \* the position of the one thread of control
    opts,        \* parseArgs' opts object, later Citer.opts
    args,        \* parseArgs' list of collected positional arguments
    exitStatus,  \* NotExited, or the status $.exit was called with
    out,         \* what console.log has printed, in order
    reads,       \* the paths readFile was called with, in order
    item,        \* Citer.item (Citer.id is item.id)
    style,       \* Citer.style
    engine,      \* the CSL.Engine instance: constructor arguments and format
    calls,       \* the calls made on the engine, in order, with their results
    data,        \* cite()'s result object {html, rtf}
    sIn,         \* the chunks of the argument of a direct stripOuterDiv application
    sOut         \* the results of stripOuterDiv applied once and twice

vars == <<argv, pc, opts, args, exitStatus, out, reads, item, style, engine,
          calls, data, sIn, sOut>>

-----------------------------------------------------------------------------
(* Bounds of the model *)

MaxArgs == 4

MaxStrLen == 6

-----------------------------------------------------------------------------
(* JavaScript values *)

Null == [t |-> "null"]

Undefined == [t |-> "undefined"]

Str(s) == [t |-> "str", v |-> s]

\* JavaScript's ToBoolean on null, undefined and strings.
Truthy(x) == x.t = "str" /\ x.v # <<>>

-----------------------------------------------------------------------------
(* The argument tokens the model draws argv from *)

TokH == <<"-", "h">>

TokHelp == <<"-", "-", "help">>

TokL == <<"-", "l">>

TokLocale == <<"-", "-", "locale">>

TokLDir == <<"-", "L">>

TokLocaleDir == <<"-", "-", "locale", "-", "dir">>

TokB == <<"-", "b">>

TokBibliography == <<"-", "-", "bibliography">>

TokV == <<"-", "v">>

TokVerbose == <<"-", "-", "verbose">>

TokBogus == <<"-", "-", "bogus">>

TokStyle == <<"a.csl">>

TokRecord == <<"b.json">>

TokFr == <<"fr", "-", "FR">>

TokEmpty == <<>>

Tokens == {TokH, TokHelp, TokL, TokLocale, TokLDir, TokLocaleDir, TokB,
           TokBibliography, TokV, TokVerbose, TokBogus, TokStyle, TokRecord,
           TokFr, TokEmpty}

\* The argument list is any list of at most MaxArgs tokens: before run() is
\* entered, the caller appends one more token to it.
AppendArg ==
    /\ pc = "run"
    /\ Len(argv) < MaxArgs
    /\ \E tok \in Tokens : argv' = Append(argv, tok)
    /\ UNCHANGED <<pc, opts, args, exitStatus, out, reads, item, style, engine,
                   calls, data, sIn, sOut>>

-----------------------------------------------------------------------------
(* showHelp and parseArgs *)

NotExited == 2

MsgNone == <<>>

MsgUnknownOption(s) == <<"unknown option: ", s>>

MsgTakesTwo == <<"script takes 2 arguments">>

\* showHelp without the status = 1 of the error branch.
showHelpStatus_AlwaysZero(errMsg) == 0

\* What showHelp(errMsg) prints, and the status it exits with.
showHelpStatus(errMsg) == IF errMsg # MsgNone THEN 1 ELSE 0

showHelpOutput(errMsg) ==
    IF errMsg # MsgNone THEN <<<<"error", errMsg>>, <<"usage">>>> ELSE <<<<"usage">>>>

\* The help scan testing for '-h' alone.
isHelpFlag_ShortOnly(s) == s = TokH

isHelpFlag(s) == s = TokH \/ s = TokHelp

\* The forEach scan and the length test that precede the option loop.
helpRequested(av) == (\E k \in 1..Len(av) : isHelpFlag(av[k])) \/ Len(av) = 0

startsWithDash(s) == Len(s) >= 1 /\ s[1] = "-"

isLocaleFlag(s) == s = TokLocale \/ s = TokL

isLocaleDirFlag(s) == s = TokLocaleDir \/ s = TokLDir

isBibliographyFlag(s) == s = TokBibliography \/ s = TokB

isVerboseFlag(s) == s = TokVerbose \/ s = TokV

\* argv[j] for a 1-based j: undefined past the end of the array.
ArgAt(av, j) == IF j <= Len(av) THEN Str(av[j]) ELSE Undefined

DefaultLocaleDir == <<"./locales">>

InitialOpts ==
    [locale |-> Null, localeDir |-> Str(DefaultLocaleDir), style |-> Null,
     csl |-> Null, bibliography |-> FALSE, verbose |-> FALSE]

\* args.unshift(s) in place of args.push(s).
pushArg_Prepend(as, s) == <<s>> \o as

pushArg(as, s) == Append(as, s)

\* The option loop from index i on: the error message of the showHelp call
\* that ended it (MsgNone when it ran to the end), the positionals and opts.
\* The loop without the i++ of the two options that take a value: the value
\* is looked at again as a token of its own.
RECURSIVE optionLoop_NoConsume(_, _, _, _)
optionLoop_NoConsume(av, i, as, o) ==
    IF i > Len(av) THEN [err |-> MsgNone, args |-> as, opts |-> o]
    ELSE LET s == av[i] IN
         IF startsWithDash(s) THEN
             IF isLocaleFlag(s)
                 THEN optionLoop_NoConsume(av, i + 1, as, [o EXCEPT !.locale = ArgAt(av, i + 1)])
             ELSE IF isLocaleDirFlag(s)
                 THEN optionLoop_NoConsume(av, i + 1, as, [o EXCEPT !.localeDir = ArgAt(av, i + 1)])
             ELSE IF isBibliographyFlag(s)
                 THEN optionLoop_NoConsume(av, i + 1, as, [o EXCEPT !.bibliography = TRUE])
             ELSE IF isVerboseFlag(s)
                 THEN optionLoop_NoConsume(av, i + 1, as, [o EXCEPT !.verbose = TRUE])
             ELSE [err |-> MsgUnknownOption(s), args |-> as, opts |-> o]
         ELSE optionLoop_NoConsume(av, i + 1, pushArg(as, s), o)

RECURSIVE optionLoop(_, _, _, _)
optionLoop(av, i, as, o) ==
    IF i > Len(av) THEN [err |-> MsgNone, args |-> as, opts |-> o]
    ELSE LET s == av[i] IN
         IF startsWithDash(s) THEN
             IF isLocaleFlag(s)
                 THEN optionLoop(av, i + 2, as, [o EXCEPT !.locale = ArgAt(av, i + 1)])
             ELSE IF isLocaleDirFlag(s)
                 THEN optionLoop(av, i + 2, as, [o EXCEPT !.localeDir = ArgAt(av, i + 1)])
             ELSE IF isBibliographyFlag(s)
                 THEN optionLoop(av, i + 1, as, [o EXCEPT !.bibliography = TRUE])
             ELSE IF isVerboseFlag(s)
                 THEN optionLoop(av, i + 1, as, [o EXCEPT !.verbose = TRUE])
             ELSE [err |-> MsgUnknownOption(s), args |-> as, opts |-> o]
         ELSE optionLoop(av, i + 1, pushArg(as, s), o)

tooManyArgs(as) == Len(as) > 2

\* opts after the positionals have been assigned.
assignArgs(o, as) ==
    [o EXCEPT !.style = IF Len(as) > 0 THEN Str(as[1]) ELSE @,
              !.csl   = IF Len(as) > 1 THEN Str(as[2]) ELSE @]

\* parseArgs(argv): either showHelp ends the process, or opts is returned.
ParseArgs ==
    /\ pc = "run"
    /\ IF helpRequested(argv)
       THEN /\ out' = out \o showHelpOutput(MsgNone)
            /\ exitStatus' = showHelpStatus(MsgNone)
            /\ pc' = "exited"
            /\ UNCHANGED <<opts, args>>
       ELSE LET r == optionLoop(argv, 1, <<>>, InitialOpts) IN
            IF r.err # MsgNone
            THEN /\ out' = out \o showHelpOutput(r.err)
                 /\ exitStatus' = showHelpStatus(r.err)
                 /\ pc' = "exited"
                 /\ args' = r.args
                 /\ opts' = r.opts
            ELSE IF tooManyArgs(r.args)
            THEN /\ out' = out \o showHelpOutput(MsgTakesTwo)
                 /\ exitStatus' = showHelpStatus(MsgTakesTwo)
                 /\ pc' = "exited"
                 /\ args' = r.args
                 /\ opts' = r.opts
            ELSE /\ args' = r.args
                 /\ opts' = assignArgs(r.opts, r.args)
                 /\ pc' = "parsed"
                 /\ UNCHANGED <<out, exitStatus>>
    /\ UNCHANGED <<argv, reads, item, style, engine, calls, data, sIn, sOut>>

-----------------------------------------------------------------------------
(* The file system and readFile *)

StyleText == <<"<style/>">>

RecordIds == {<<"r1">>, <<"r2">>}

RecordText(id) == <<"{\"id\":">> \o id \o <<"}">>

LangEnUS == <<"en", "-", "US">>

LocaleText(lang) == <<"<locale ">> \o lang \o <<"/>">>

\* String(x) as a template literal `${x}` computes it.
ToString(x) ==
    IF x.t = "str" THEN x.v ELSE IF x.t = "null" THEN <<"null">> ELSE <<"undefined">>

\* `${localeDir}/locales-${lang}.xml`
localePath(dir, lang) == Str(ToString(dir) \o <<"/locales-">> \o lang \o <<".xml">>)

\* The contents a file at `path` may have; empty when there is no such file.
FileContents(path) ==
    IF path = Str(TokStyle) THEN {StyleText}
    ELSE IF path = Str(TokRecord) THEN {RecordText(id) : id \in RecordIds}
    ELSE IF path = localePath(Str(DefaultLocaleDir), LangEnUS) THEN {LocaleText(LangEnUS)}
    ELSE IF path = localePath(Str(DefaultLocaleDir), TokFr) THEN {LocaleText(TokFr)}
    ELSE {}

\* The values readFile(path) may return.  contentsAtPath answers nil for a
\* missing file; the string built from nil unwraps to undefined or to the
\* empty string, and no error is raised.
readFile(path) ==
    IF FileContents(path) # {} THEN {Str(c) : c \in FileContents(path)}
    ELSE {Undefined, Str(<<>>)}

\* JSON.parse: the record object of a well-formed record text, else a throw.
jsonParses(x) == x.t = "str" /\ \E id \in RecordIds : x.v = RecordText(id)

jsonParse(x) == [id |-> CHOOSE id \in RecordIds : x.v = RecordText(id)]

-----------------------------------------------------------------------------
(* stripOuterDiv and the string operations of cite() *)

NL == "\n"

\* What "." of a regular expression matches: anything but a line terminator.
Dot(c) == c # NL

\* (.+)</div>$ from position a on: the group, or <<>> when it does not match.
\* $ is the end of the input, so the group runs up to the final "</div>".
innerMatch(s, a) ==
    LET n == Len(s) IN
    IF /\ a <= n - 2
       /\ s[n - 1] = "</div"
       /\ s[n] = ">"
       /\ \A k \in a..(n - 2) : Dot(s[k])
    THEN SubSeq(s, a, n - 2)
    ELSE <<>>

\* .*?> from position p on, lazily: the shortest run of "." followed by ">"
\* after which the rest of the expression matches.
RECURSIVE tagMatch(_, _)
tagMatch(s, p) ==
    IF p > Len(s) THEN <<>>
    ELSE IF s[p] = ">" /\ innerMatch(s, p + 1) # <<>> THEN innerMatch(s, p + 1)
    ELSE IF Dot(s[p]) THEN tagMatch(s, p + 1)
    ELSE <<>>

\* The expression without its ^ anchor: the leftmost "<div" a match starts at.
RECURSIVE unanchoredMatch(_, _)
unanchoredMatch(s, p) ==
    IF p > Len(s) THEN <<>>
    ELSE IF s[p] = "<div" /\ tagMatch(s, p + 1) # <<>> THEN tagMatch(s, p + 1)
    ELSE unanchoredMatch(s, p + 1)

regexExec_Unanchored(html) == unanchoredMatch(html, 1)

\* new RegExp('^<div.*?>(.+)</div>$').exec(html): match[1], or <<>> for null
\* (the group is .+, so a match never has an empty group).
regexExec(html) ==
    IF Len(html) >= 1 /\ html[1] = "<div" THEN tagMatch(html, 2) ELSE <<>>

stripOuterDiv(html) ==
    IF regexExec(html) # <<>> THEN regexExec(html) ELSE html

IsSpace(c) == c = NL \/ c = " "

RECURSIVE trimStart(_)
trimStart(s) ==
    IF s # <<>> /\ IsSpace(s[1]) THEN trimStart(Tail(s)) ELSE s

RECURSIVE trimEnd(_)
trimEnd(s) ==
    IF s # <<>> /\ IsSpace(s[Len(s)]) THEN trimEnd(SubSeq(s, 1, Len(s) - 1)) ELSE s

\* String.prototype.trim
trim(s) == trimEnd(trimStart(s))

\* Array.prototype.join with the separator '\n'
RECURSIVE joinNL(_)
joinNL(entries) ==
    IF entries = <<>> THEN <<>>
    ELSE IF Len(entries) = 1 THEN entries[1]
    ELSE entries[1] \o <<NL>> \o joinNL(Tail(entries))

-----------------------------------------------------------------------------
(* run() up to the Citer constructor *)

NoEngine == [constructed |-> FALSE, locale |-> <<>>, force |-> FALSE,
             format |-> "html", items |-> <<>>, locales |-> <<>>]

\* The three console.log lines of run() in verbose mode.
runLog(o) ==
    IF o.verbose
    THEN <<<<"bibliography=", o.bibliography>>, <<"csl=", ToString(o.csl)>>,
           <<"style=", ToString(o.style)>>>>
    ELSE <<>>

RunLog ==
    /\ pc = "parsed"
    /\ out' = out \o runLog(opts)
    /\ pc' = "citer_item"
    /\ UNCHANGED <<argv, opts, args, exitStatus, reads, item, style, engine,
                   calls, data, sIn, sOut>>

\* this.item = JSON.parse(readFile(opts.csl))
CiterReadItem ==
    /\ pc = "citer_item"
    /\ reads' = Append(reads, opts.csl)
    /\ \E c \in readFile(opts.csl) :
          IF jsonParses(c)
          THEN item' = jsonParse(c) /\ pc' = "citer_style"
          ELSE item' = item /\ pc' = "threw"
    /\ UNCHANGED <<argv, opts, args, exitStatus, out, style, engine, calls,
                   data, sIn, sOut>>

\* this.style = readFile(opts.style); this.id = this.item.id
CiterReadStyle ==
    /\ pc = "citer_style"
    /\ reads' = Append(reads, opts.style)
    /\ \E c \in readFile(opts.style) : style' = c
    /\ pc' = "citer_engine"
    /\ UNCHANGED <<argv, opts, args, exitStatus, out, item, engine, calls,
                   data, sIn, sOut>>

\* The locale and force arguments the constructor computes from opts.locale.
citerLocale(o) == IF Truthy(o.locale) THEN o.locale.v ELSE <<"en">>

\* The constructor without force = true in the locale branch.
citerForce_Never(o) == FALSE

citerForce(o) == Truthy(o.locale)

\* The engine takes a CSL style document and rejects any other text.
engineAccepts(styleValue) == styleValue = Str(StyleText)

\* this.citer = new CSL.Engine(this, this.style, locale, force)
CiterNewEngine ==
    /\ pc = "citer_engine"
    /\ calls' = Append(calls, [op |-> "new", arg |-> <<citerLocale(opts), citerForce(opts)>>,
                               format |-> "html", ret |-> <<>>])
    /\ IF engineAccepts(style)
       THEN /\ engine' = [constructed |-> TRUE, locale |-> citerLocale(opts),
                          force |-> citerForce(opts), format |-> "html",
                          items |-> <<>>, locales |-> <<>>]
            /\ pc' = "engine_locale"
       ELSE /\ engine' = engine
            /\ pc' = "threw"
    /\ UNCHANGED <<argv, opts, args, exitStatus, out, reads, item, style, data,
                   sIn, sOut>>

\* The two console.log lines of retrieveLocale in verbose mode.
localeLog(o, lang) ==
    IF o.verbose
    THEN <<<<"locale=", lang>>, <<"localeDir=", ToString(o.localeDir)>>>>
    ELSE <<>>

\* The language tags the engine may ask for while it is constructed.
EngineLangs == {LangEnUS, engine.locale}

\* Citer.prototype.retrieveLocale(lang), called back by the engine, which may
\* or may not go on with a text that is no locale document.
RetrieveLocale ==
    /\ pc = "engine_locale"
    /\ \E lang \in EngineLangs :
          /\ out' = out \o localeLog(opts, lang)
          /\ reads' = Append(reads, localePath(opts.localeDir, lang))
          /\ \E c \in readFile(localePath(opts.localeDir, lang)) :
                /\ engine' = [engine EXCEPT !.locales = Append(@, [lang |-> lang, text |-> c])]
                /\ IF c = Str(LocaleText(lang))
                   THEN pc' = "cite"
                   ELSE pc' \in {"cite", "threw"}
    /\ UNCHANGED <<argv, opts, args, exitStatus, item, style, calls, data, sIn, sOut>>

-----------------------------------------------------------------------------
(* cite() *)

HWrapped == <<"<div", " class=\"csl-entry\"", ">", "Doe", "</div", ">">>

HPadded == <<" ", " ">> \o HWrapped \o <<NL>>

HPlain == <<"(Doe)">>

\* An entry whose wrapper holds its content on lines of its own.
HMultiline ==
    <<"<div", " class=\"csl-entry\"", ">", NL, "Doe", NL, "</div", ">">>

\* What a render call of the engine may return as one string, in any format.
EngineStrings == {HWrapped, HPadded, HPlain}

\* The lists of entries makeBibliography may return as its second element.
EngineEntryLists ==
    {<<e>> : e \in EngineStrings}
        \cup {<<HPadded, HPadded>>, <<HWrapped, HPlain>>, <<HMultiline>>}

BibMeta == <<"meta">>

\* cite() with the format switch moved before the first render call.
citeStepAfter_FormatFirst(p) ==
    IF p = "cite" THEN "cite_format"
    ELSE IF p = "cite_format" THEN "cite_html"
    ELSE IF p = "cite_html" THEN "cite_rtf"
    ELSE "cite_return"

\* The statements of cite() in order: the position after position p.
citeStepAfter(p) ==
    IF p = "cite" THEN "cite_html"
    ELSE IF p = "cite_html" THEN "cite_format"
    ELSE IF p = "cite_format" THEN "cite_rtf"
    ELSE "cite_return"

\* The id list cite() hands to updateItems and makeCitationCluster.
citeIds == <<item.id>>

\* data.html and data.rtf from a makeBibliography result.
bibliographyHtml(res) == stripOuterDiv(trim(joinNL(res[2])))

\* The RTF pass trimmed like the HTML pass.
bibliographyRtf_Trimmed(res) == trim(joinNL(res[2]))

bibliographyRtf(res) == joinNL(res[2])

\* data.html and data.rtf from a makeCitationCluster result.
citationHtml(res) == res

citationRtf(res) == res

\* cite() leaving the engine in its default format.
secondFormat_Html == "html"

\* The format cite() switches the engine to between the two passes.
secondFormat == "rtf"

\* var data = {html: '', rtf: ''}; this.citer.updateItems([this.id])
CiteUpdateItems ==
    /\ pc = "cite"
    /\ data' = [html |-> <<>>, rtf |-> <<>>]
    /\ calls' = Append(calls, [op |-> "updateItems", arg |-> citeIds,
                               format |-> engine.format, ret |-> <<>>])
    /\ engine' = [engine EXCEPT !.items = citeIds]
    /\ pc' = citeStepAfter(pc)
    /\ UNCHANGED <<argv, opts, args, exitStatus, out, reads, item, style, sIn, sOut>>

\* The first render call, in the format the engine is in.
CiteHtml ==
    /\ pc = "cite_html"
    /\ IF opts.bibliography
       THEN \E es \in EngineEntryLists :
               LET res == <<BibMeta, es>> IN
               /\ calls' = Append(calls, [op |-> "makeBibliography", arg |-> <<>>,
                                          format |-> engine.format, ret |-> res])
               /\ data' = [data EXCEPT !.html = bibliographyHtml(res)]
       ELSE \E res \in EngineStrings :
               /\ calls' = Append(calls, [op |-> "makeCitationCluster", arg |-> citeIds,
                                          format |-> engine.format, ret |-> res])
               /\ data' = [data EXCEPT !.html = citationHtml(res)]
    /\ pc' = citeStepAfter(pc)
    /\ UNCHANGED <<argv, opts, args, exitStatus, out, reads, item, style, engine,
                   sIn, sOut>>

\* this.citer.setOutputFormat('rtf')
CiteSetFormat ==
    /\ pc = "cite_format"
    /\ calls' = Append(calls, [op |-> "setOutputFormat", arg |-> secondFormat,
                               format |-> engine.format, ret |-> <<>>])
    /\ engine' = [engine EXCEPT !.format = secondFormat]
    /\ pc' = citeStepAfter(pc)
    /\ UNCHANGED <<argv, opts, args, exitStatus, out, reads, item, style, data,
                   sIn, sOut>>

\* The second render call, in the format the engine is in.
CiteRtf ==
    /\ pc = "cite_rtf"
    /\ IF opts.bibliography
       THEN \E es \in EngineEntryLists :
               LET res == <<BibMeta, es>> IN
               /\ calls' = Append(calls, [op |-> "makeBibliography", arg |-> <<>>,
                                          format |-> engine.format, ret |-> res])
               /\ data' = [data EXCEPT !.rtf = bibliographyRtf(res)]
       ELSE \E res \in EngineStrings :
               /\ calls' = Append(calls, [op |-> "makeCitationCluster", arg |-> citeIds,
                                          format |-> engine.format, ret |-> res])
               /\ data' = [data EXCEPT !.rtf = citationRtf(res)]
    /\ pc' = citeStepAfter(pc)
    /\ UNCHANGED <<argv, opts, args, exitStatus, out, reads, item, style, engine,
                   sIn, sOut>>

\* return data, and run() returns JSON.stringify of it.
CiteReturn ==
    /\ pc = "cite_return"
    /\ out' = Append(out, <<"result", data>>)
    /\ pc' = "done"
    /\ UNCHANGED <<argv, opts, args, exitStatus, reads, item, style, engine,
                   calls, data, sIn, sOut>>

-----------------------------------------------------------------------------
(* stripOuterDiv applied on its own *)

Chunks == {<<"<div", ">">>, <<"<div">>, <<">">>, <<"</div", ">">>, <<"a">>, <<NL>>}

RECURSIVE Flatten(_)
Flatten(q) == IF q = <<>> THEN <<>> ELSE q[1] \o Flatten(Tail(q))

\* The string stripOuterDiv is applied to: the chunks of sIn in a row.
StripArg == Flatten(sIn)

\* The argument is any string of at most MaxStrLen chunks: before the
\* function is applied, one more chunk is appended to it.
AppendChunk ==
    /\ pc = "strip"
    /\ sOut = <<>>
    /\ Len(sIn) < MaxStrLen
    /\ \E c \in Chunks : sIn' = Append(sIn, c)
    /\ UNCHANGED <<argv, pc, opts, args, exitStatus, out, reads, item, style,
                   engine, calls, data, sOut>>

StripOnce ==
    /\ pc = "strip"
    /\ sOut = <<>>
    /\ sOut' = <<stripOuterDiv(StripArg)>>
    /\ UNCHANGED <<argv, pc, opts, args, exitStatus, out, reads, item, style,
                   engine, calls, data, sIn>>

StripTwice ==
    /\ pc = "strip"
    /\ Len(sOut) = 1
    /\ sOut' = Append(sOut, stripOuterDiv(sOut[1]))
    /\ UNCHANGED <<argv, pc, opts, args, exitStatus, out, reads, item, style,
                   engine, calls, data, sIn>>

-----------------------------------------------------------------------------

Idle ==
    /\ opts = InitialOpts
    /\ args = <<>>
    /\ exitStatus = NotExited
    /\ out = <<>>
    /\ reads = <<>>
    /\ item = Null
    /\ style = Null
    /\ engine = NoEngine
    /\ calls = <<>>
    /\ data = [html |-> <<>>, rtf |-> <<>>]
    /\ sOut = <<>>

Init ==
    /\ argv = <<>>
    /\ pc = "run"
    /\ sIn = <<>>
    /\ Idle

Next ==
    \/ AppendArg
    \/ ParseArgs
    \/ RunLog
    \/ CiterReadItem
    \/ CiterReadStyle
    \/ CiterNewEngine
    \/ RetrieveLocale
    \/ CiteUpdateItems
    \/ CiteHtml
    \/ CiteSetFormat
    \/ CiteRtf
    \/ CiteReturn

Spec == Init /\ [][Next]_vars

\* The run up to the end of the Citer constructor's own statements: argument
\* parsing, the two file reads and the construction of the engine.
NextParse ==
    \/ AppendArg
    \/ ParseArgs
    \/ RunLog
    \/ CiterReadItem
    \/ CiterReadStyle
    \/ CiterNewEngine

SpecParse == Init /\ [][NextParse]_vars

\* cite() is a method of the Citer: a caller that keeps the object may call
\* it again, up to MaxCites times in all.
MaxCites == 2

\* How many times cite() has been entered on this Citer.
CiteCount == Len(SelectSeq(calls, LAMBDA c : c.op = "updateItems"))

\* A further cite() on the same Citer, after the one before has returned.
CiteAgain ==
    /\ pc = "done"
    /\ CiteCount < MaxCites
    /\ pc' = "cite"
    /\ UNCHANGED <<argv, opts, args, exitStatus, out, reads, item, style, engine,
                   calls, data, sIn, sOut>>

\* The command lines of the runs in which cite() is called again: one for
\* each mode, with both files in place.
ReciteArgvs == {<<TokStyle, TokRecord>>, <<TokB, TokStyle, TokRecord>>}

InitRecite ==
    /\ argv \in ReciteArgvs
    /\ pc = "run"
    /\ sIn = <<>>
    /\ Idle

NextRecite ==
    \/ ParseArgs
    \/ RunLog
    \/ CiterReadItem
    \/ CiterReadStyle
    \/ CiterNewEngine
    \/ RetrieveLocale
    \/ CiteUpdateItems
    \/ CiteHtml
    \/ CiteSetFormat
    \/ CiteRtf
    \/ CiteReturn
    \/ CiteAgain

SpecRecite == InitRecite /\ [][NextRecite]_vars

InitStrip ==
    /\ argv = <<>>
    /\ pc = "strip"
    /\ sIn = <<>>
    /\ Idle

NextStrip == AppendChunk \/ StripOnce \/ StripTwice

SpecStrip == InitStrip /\ [][NextStrip]_vars

-----------------------------------------------------------------------------
(* Notions the claims are stated in, read off the argument list alone *)

HelpGiven(av) == av = <<>> \/ \E k \in 1..Len(av) : av[k] \in {TokH, TokHelp}

KnownFlags == {TokB, TokBibliography, TokL, TokLocale, TokLDir, TokLocaleDir,
               TokV, TokVerbose}

ValueFlags == {TokL, TokLocale, TokLDir, TokLocaleDir}

BeginsWithDash(s) == s # <<>> /\ Head(s) = "-"

\* Token k is the value of the -l/--locale or -L/--locale-dir before it.
RECURSIVE IsOptionValue(_, _)
IsOptionValue(av, k) ==
    k > 1 /\ av[k - 1] \in ValueFlags /\ ~IsOptionValue(av, k - 1)

HasUnknownOption(av) ==
    \E k \in 1..Len(av) :
        ~IsOptionValue(av, k) /\ BeginsWithDash(av[k]) /\ av[k] \notin KnownFlags

HasUnknownDashToken(av) ==
    \E k \in 1..Len(av) : BeginsWithDash(av[k]) /\ av[k] \notin KnownFlags

\* The tokens that are neither options nor option values, in order.
RECURSIVE PositionalsUpTo(_, _)
PositionalsUpTo(av, n) ==
    IF n = 0 THEN <<>>
    ELSE IF ~IsOptionValue(av, n) /\ ~BeginsWithDash(av[n])
         THEN Append(PositionalsUpTo(av, n - 1), av[n])
         ELSE PositionalsUpTo(av, n - 1)

Positionals(av) == PositionalsUpTo(av, Len(av))

UsageErrorOutput(msg) == <<<<"error", msg>>, <<"usage">>>>

NothingLoaded == reads = <<>> /\ calls = <<>> /\ engine = NoEngine

-----------------------------------------------------------------------------
(* C1 *)

\* C1: for every argument list that is empty or holds -h or --help at any
\* position, parseArgs prints the usage text alone and exits with status 0;
\* no file has been read and no engine constructed.
C1_HelpExitsZero ==
    (pc # "run" /\ HelpGiven(argv)) =>
        /\ pc = "exited"
        /\ exitStatus = 0
        /\ out = <<<<"usage">>>>
        /\ NothingLoaded

\* Help directly after -l and beside an unknown flag has ended the process.
C1_Witness ==
    /\ pc = "exited"
    /\ exitStatus = 0
    /\ argv = <<TokL, TokHelp, TokBogus, TokStyle>>

-----------------------------------------------------------------------------
(* C2 *)

\* C2 as stated: without a help flag, any token that starts with "-" and is
\* not a known flag makes parseArgs print usage with an error and exit 1.
C2_AnyUnknownDashTokenExitsOne ==
    (pc # "run" /\ ~HelpGiven(argv) /\ HasUnknownDashToken(argv)) =>
        (pc = "exited" /\ exitStatus = 1)

\* C2, amended: without a help flag, an unknown token starting with "-" that
\* is not the value consumed by a preceding -l/--locale or -L/--locale-dir
\* makes parseArgs print the error and the usage text and exit with status 1,
\* before anything is read; no configuration is returned.
C2_UnknownOptionExitsOne ==
    (pc # "run" /\ ~HelpGiven(argv) /\ HasUnknownOption(argv)) =>
        /\ pc = "exited"
        /\ exitStatus = 1
        /\ Len(out) = 2
        /\ out[1][1] = "error"
        /\ out[1][2][1] = "unknown option: "
        /\ out[2] = <<"usage">>
        /\ NothingLoaded

\* The unknown flag before two positionals has ended the process.
C2_Witness ==
    /\ pc = "exited"
    /\ exitStatus = 1
    /\ argv = <<TokBogus, TokStyle, TokRecord>>
    /\ out = UsageErrorOutput(MsgUnknownOption(TokBogus))

-----------------------------------------------------------------------------
(* C3 *)

\* C3: once parseArgs has run over an argument list with no help flag and no
\* unknown option, the collected positionals are the tokens that are neither
\* options nor option values, in their original order; more than two end the
\* process with status 1 and the usage text, otherwise the first is the style
\* path and the second the record path (null when absent).
C3_PositionalsInOrder ==
    (pc # "run" /\ ~HelpGiven(argv) /\ ~HasUnknownOption(argv)) =>
        /\ args = Positionals(argv)
        /\ IF Len(args) > 2
           THEN /\ pc = "exited"
                /\ exitStatus = 1
                /\ out = UsageErrorOutput(MsgTakesTwo)
           ELSE /\ pc # "exited"
                /\ opts.style = IF Len(args) >= 1 THEN Str(args[1]) ELSE Null
                /\ opts.csl = IF Len(args) >= 2 THEN Str(args[2]) ELSE Null

\* Two positionals with flags before, between and after them were assigned.
C3_Witness ==
    /\ pc = "parsed"
    /\ argv = <<TokV, TokStyle, TokB, TokRecord>>
    /\ opts.style = Str(TokStyle)
    /\ opts.csl = Str(TokRecord)

-----------------------------------------------------------------------------
(* C4 *)

\* C4: every usage error, fewer than two positionals included, ends the
\* process with the usage text and status 1 before any file access, so the
\* Citer constructor is only ever reached with a style path and a record path.
C4_MissingPathIsUsageError ==
    /\ (pc # "run" /\ ~HelpGiven(argv) /\ ~HasUnknownOption(argv)
            /\ Len(Positionals(argv)) < 2) =>
          (pc = "exited" /\ exitStatus = 1 /\ reads = <<>>)
    /\ (pc \notin {"run", "exited"}) => (opts.style # Null /\ opts.csl # Null)

-----------------------------------------------------------------------------
(* C5 *)

\* The positions of the -l/--locale options of an argument list.
LocaleOptionIdx(av) ==
    {k \in 1..Len(av) : ~IsOptionValue(av, k) /\ av[k] \in {TokL, TokLocale}}

MaxOf(S) == CHOOSE m \in S : \A k \in S : k <= m

\* The value of the last -l/--locale: null without one, undefined when the
\* option is the last token.
LastLocaleValue(av) ==
    IF LocaleOptionIdx(av) = {} THEN Null
    ELSE ArgAt(av, MaxOf(LocaleOptionIdx(av)) + 1)

\* A token follows some -l/--locale option.
LocaleGiven(av) == \E k \in LocaleOptionIdx(av) : k < Len(av)

ConstructorCalled == calls # <<>> /\ calls[1].op = "new"

\* C5 as stated: the engine is constructed with (Configuration.locale, true)
\* whenever a locale was given with -l/--locale, and with ("en", false)
\* exactly when none was given.
C5_GivenLocaleIsForced ==
    engine.constructed =>
        IF LocaleGiven(argv)
        THEN engine.locale = ToString(opts.locale) /\ engine.force
        ELSE engine.locale = <<"en">> /\ ~engine.force

\* C5, amended: Configuration.locale is the value of the last -l/--locale;
\* the engine is constructed with (Configuration.locale, true) whenever that
\* is a non-empty string, and with ("en", false) exactly when it is not (no
\* -l/--locale, the last one without a following token, or an empty value).
\* For -l fr-FR a.csl b.json it is constructed with fr-FR, forced.
C5_SetLocaleIsForced ==
    ConstructorCalled =>
        LET loc == LastLocaleValue(argv) IN
        /\ opts.locale = loc
        /\ IF loc.t = "str" /\ loc.v # <<>>
           THEN calls[1].arg = <<loc.v, TRUE>>
           ELSE calls[1].arg = <<<<"en">>, FALSE>>
        /\ engine.constructed =>
              (engine.locale = calls[1].arg[1] /\ engine.force = calls[1].arg[2])
        /\ argv = <<TokL, TokFr, TokStyle, TokRecord>> =>
              calls[1].arg = <<TokFr, TRUE>>

\* The engine has been constructed for -l fr-FR a.csl b.json.
C5_Witness ==
    /\ argv = <<TokL, TokFr, TokStyle, TokRecord>>
    /\ engine.constructed
    /\ engine.locale = TokFr
    /\ engine.force

-----------------------------------------------------------------------------
(* C6 *)

EngineCalls == SelectSeq(calls, LAMBDA c : c.op # "new")

ClusterCalls == SelectSeq(calls, LAMBDA c : c.op = "makeCitationCluster")

\* C6: in citation mode cite() calls makeCitationCluster exactly twice, both
\* times with the one-element list of the record's id; the engine is in its
\* default (HTML) format during the first call and in "rtf" during the
\* second; the first result is html and the second rtf.
C6_ClusterTwice ==
    /\ Len(ClusterCalls) <= 2
    /\ \A k \in 1..Len(ClusterCalls) :
          /\ ~opts.bibliography
          /\ ClusterCalls[k].arg = <<item.id>>
          /\ ClusterCalls[k].format = IF k = 1 THEN "html" ELSE "rtf"
    /\ (pc = "done" /\ ~opts.bibliography) =>
          /\ Len(ClusterCalls) = 2
          /\ data.html = ClusterCalls[1].ret
          /\ data.rtf = ClusterCalls[2].ret

\* A citation of record r2 is done, with different texts in the two formats.
C6_Witness ==
    /\ pc = "done"
    /\ ~opts.bibliography
    /\ item.id = <<"r2">>
    /\ Len(ClusterCalls) = 2
    /\ data.html = HWrapped
    /\ data.rtf = HPlain

-----------------------------------------------------------------------------
(* C7 *)

RenderOp == IF opts.bibliography THEN "makeBibliography" ELSE "makeCitationCluster"

CiteOps == <<"updateItems", RenderOp, "setOutputFormat", RenderOp>>

\* C7: in a render of either mode the engine is called in the order
\* updateItems([id]), first render call, setOutputFormat("rtf"), second
\* render call; the engine is in its default format up to the switch, html
\* holds the first result before the switch, and at the end setOutputFormat
\* has been called exactly once.
C7_CallOrder ==
    /\ Len(EngineCalls) <= 4
    /\ \A k \in 1..Len(EngineCalls) : EngineCalls[k].op = CiteOps[k]
    /\ Len(EngineCalls) >= 1 => EngineCalls[1].arg = <<item.id>>
    /\ Len(EngineCalls) >= 3 =>
          /\ EngineCalls[3].arg = "rtf"
          /\ EngineCalls[2].format = "html"
          /\ data.html = IF opts.bibliography
                         THEN stripOuterDiv(trim(joinNL(EngineCalls[2].ret[2])))
                         ELSE EngineCalls[2].ret
    /\ engine.format = "rtf" <=> Len(EngineCalls) >= 3
    /\ Len(EngineCalls) = 4 => EngineCalls[4].format = "rtf"
    /\ pc = "done" => Len(EngineCalls) = 4

\* A render in bibliography mode is done.
C7_Witness ==
    /\ pc = "done"
    /\ opts.bibliography
    /\ Len(EngineCalls) = 4
    /\ engine.format = "rtf"

-----------------------------------------------------------------------------
(* C8 *)

\* C8: in bibliography mode html is the second element of the first
\* makeBibliography result joined with newlines, trimmed and stripped of its
\* outer wrapper, and rtf is the second element of the second result joined
\* with newlines and nothing more; in citation mode html and rtf are the
\* engine's results as they came.
C8_BibliographyOutput ==
    pc = "done" =>
        IF opts.bibliography
        THEN /\ EngineCalls[2].format = "html"
             /\ data.html = stripOuterDiv(trim(joinNL(EngineCalls[2].ret[2])))
             /\ EngineCalls[4].format = "rtf"
             /\ data.rtf = joinNL(EngineCalls[4].ret[2])
        ELSE /\ data.html = EngineCalls[2].ret
             /\ data.rtf = EngineCalls[4].ret

\* A bibliography is done whose HTML entry was trimmed and stripped, and
\* whose RTF entries, two of them padded and wrapped, were only joined.
C8_Witness ==
    /\ pc = "done"
    /\ opts.bibliography
    /\ EngineCalls[2].ret[2] = <<HPadded>>
    /\ data.html = <<"Doe">>
    /\ EngineCalls[4].ret[2] = <<HPadded, HPadded>>
    /\ data.rtf = HPadded \o <<NL>> \o HPadded

-----------------------------------------------------------------------------
(* C9 and C10: stripOuterDiv on its own *)

BeginsWithDiv(s) == s # <<>> /\ Head(s) = "<div"

EndsWithCloseDiv(s) == Len(s) >= 2 /\ s[Len(s) - 1] = "</div" /\ s[Len(s)] = ">"

Wrapped(s) == <<"<div", ">">> \o s \o <<"</div", ">">>

\* C9 as stated: stripping twice is stripping once, for every string.
C9_Idempotent == Len(sOut) = 2 => sOut[2] = sOut[1]

\* C9, amended: stripOuterDiv removes one wrapper layer per application.
\* Stripping its result again is a no-op unless that result itself begins
\* with "<div" and ends with "</div>"; for a wrapper whose inner content is
\* itself a wrapper, as in <div><div>a</div></div>, the second application
\* strips the inner wrapper too.
C9_IdempotentUnlessNested ==
    Len(sOut) = 2 =>
        /\ ~(BeginsWithDiv(sOut[1]) /\ EndsWithCloseDiv(sOut[1])) => sOut[2] = sOut[1]
        /\ StripArg = Wrapped(Wrapped(<<"a">>)) =>
              (sOut[1] = Wrapped(<<"a">>) /\ sOut[2] = <<"a">>)

\* A wrapper was stripped, and stripping the result again changed nothing.
C9_Witness ==
    /\ StripArg = Wrapped(<<"a", "a">>)
    /\ sOut = <<<<"a", "a">>, <<"a", "a">>>>

\* The nesting depth of the div elements of the first n pieces of s.
RECURSIVE Depth(_, _)
Depth(s, n) ==
    IF n = 0 THEN 0
    ELSE IF s[n] = "<div" THEN Depth(s, n - 1) + 1
    ELSE IF s[n] = "</div" /\ Depth(s, n - 1) > 0 THEN Depth(s, n - 1) - 1
    ELSE Depth(s, n - 1)

\* s is one complete wrapper element spanning the whole string: it opens
\* with a <div ...> tag that only the final </div> closes.
IsSingleWrapper(s) ==
    /\ BeginsWithDiv(s)
    /\ EndsWithCloseDiv(s)
    /\ \E p \in 2..Len(s) : s[p] = ">" /\ \A k \in 2..(p - 1) : s[k] \notin {">", "<div", "</div"}
    /\ \A n \in 1..(Len(s) - 2) : Depth(s, n) >= 1
    /\ Depth(s, Len(s) - 1) = 0

\* C10: stripOuterDiv returns its input unchanged for every string that is
\* not a single complete wrapper element spanning the whole string, two
\* sibling wrapper elements and strings without a wrapper among them.
C10_NonWrapperUnchanged ==
    (Len(sOut) >= 1 /\ ~IsSingleWrapper(StripArg)) => sOut[1] = StripArg

-----------------------------------------------------------------------------
(* C11 *)

\* The raw bibliography string of the HTML pass: joined and trimmed.
RawBibliography == trim(joinNL(EngineCalls[2].ret[2]))

\* The position of the ">" that ends the opening tag of a wrapper.
OpeningTagEnd(s) == CHOOSE p \in 2..Len(s) : s[p] = ">" /\ \A k \in 2..(p - 1) : s[k] # ">"

\* What a single wrapper element holds between its opening tag and the
\* final closing tag.
InnerContent(s) == SubSeq(s, OpeningTagEnd(s) + 1, Len(s) - 2)

\* C11: whenever the trimmed, newline-joined bibliography string of the HTML
\* pass is a single wrapper element spanning the whole string, whatever it
\* holds (newlines included), the html of a bibliography differs from that
\* string and is exactly the wrapper's inner content.
C11_WrapperAlwaysStripped ==
    (pc = "done" /\ opts.bibliography /\ IsSingleWrapper(RawBibliography)) =>
        /\ data.html # RawBibliography
        /\ data.html = InnerContent(RawBibliography)

-----------------------------------------------------------------------------
(* C12 *)

\* A file is there to be read at this path.
PathExists(path) == FileContents(path) # {}

\* The values that stand for "no content": absent or empty.
NoContent == {Undefined, Str(<<>>)}

\* C12: a read of a style, record or locale path with no readable file fails
\* at the read and ends the invocation: the read hands no absent or empty
\* value on (the engine's locale callback included), and no result is written
\* by a run that read such a path.
C12_MissingFileFailsAtRead ==
    /\ (reads # <<>> /\ ~PathExists(reads[Len(reads)])) => pc = "threw"
    /\ style \notin NoContent
    /\ \A k \in 1..Len(engine.locales) : engine.locales[k].text \notin NoContent
    /\ pc = "done" => \A k \in 1..Len(reads) : PathExists(reads[k])

-----------------------------------------------------------------------------
(* C13 *)

\* The first render call of the n-th cite() in the log of engine calls: each
\* cite() makes four calls, the first render being the second of them.
HtmlRenderOf(n) == EngineCalls[4 * (n - 1) + 2]

\* The html cite() computes from the result of a first render call.
HtmlFrom(c) == IF opts.bibliography THEN bibliographyHtml(c.ret) ELSE citationHtml(c.ret)

\* C13: cite() never restores the engine's output format.  Once a cite() has
\* returned the engine is in "rtf"; the first render call of the first cite()
\* on a Citer runs in the default format, that of every later cite() on the
\* same Citer runs in "rtf", and the html of the result is what that call
\* returned.
C13_FormatNeverRestored ==
    /\ pc = "done" => engine.format = "rtf"
    /\ \A n \in 1..CiteCount :
          Len(EngineCalls) >= 4 * (n - 1) + 2 =>
              HtmlRenderOf(n).format = IF n = 1 THEN "html" ELSE "rtf"
    /\ pc = "done" => data.html = HtmlFrom(HtmlRenderOf(CiteCount))

C13_Witness ==
    /\ pc = "done"
    /\ CiteCount = 2
    /\ HtmlRenderOf(2).format = "rtf"
    /\ data.html = HtmlFrom(HtmlRenderOf(2))
    /\ Len(out) = 2

-----------------------------------------------------------------------------
(* C14 *)

\* Token k is looked at by the option loop as an option.
IsOptionAt(av, k) == ~IsOptionValue(av, k) /\ BeginsWithDash(av[k])

\* Where the loop meets one of the given flags as an option.
FlagIdxs(av, flags) == {k \in 1..Len(av) : IsOptionAt(av, k) /\ av[k] \in flags}

\* The token after position k, absent when k is the last position.
ValueAfter(av, k) == IF k < Len(av) THEN Str(av[k + 1]) ELSE Undefined

\* The value the last of the given flags leaves, or the default with none.
ValueOf(av, flags, default) ==
    LET S == FlagIdxs(av, flags) IN
    IF S = {} THEN default ELSE ValueAfter(av, MaxOf(S))

TrailingLocaleFlag(av) == av # <<>> /\ Len(av) \in FlagIdxs(av, {TokL, TokLocale})

ConsumeExample == <<TokL, TokB, TokStyle, TokRecord>>

====
